---- MODULE Spec2Model ----
\* Model of the cookie-based authentication plugin (plugins/auth): the
\* in-memory JWKS cache (getJwks), the token verifier (validateToken) and the
\* request decorator (authentication), with concurrent requests interleaving
\* at every await of the source.
EXTENDS Integers, Sequences, FiniteSets, TLC

\* ---------------------------------------------------------------- bounds
NumReq == 2        \* request slots that can be in flight at the same time
MaxTicks == 2      \* clock advances explored

\* ------------------------------------------------------------- constants
CACHE_TTL == 24 * 60 * 60 * 1000
\* Date.now() when the process starts (any value past one TTL will do)
StartNow == 2 * CACHE_TTL
StartSec == StartNow \div 1000
ISSUER == "https://cognito-idp.REGION.amazonaws.com/POOL"
ALGORITHMS == {"RS256"}

Req == 1 .. NumReq
\* clock advances: one millisecond, or a whole TTL
TickSteps == {1, CACHE_TTL}

\* ------------------------------------------------------------------ keys
\* A JWK: key identifier, key type, key material (the RSA modulus).
K1 == [kid |-> "abc", kty |-> "RSA", n |-> "m1"]
K2 == [kid |-> "xyz", kty |-> "RSA", n |-> "m2"]
\* a key jwk-to-pem cannot convert
K3 == [kid |-> "xyz", kty |-> "oct", n |-> "m2"]

\* Values of a JavaScript variable holding the keys array.
JsNull == [tag |-> "null", keys |-> << >>]
JsUndefined == [tag |-> "undefined", keys |-> << >>]
JsKeys(ks) == [tag |-> "keys", keys |-> ks]
\* JavaScript truthiness: null and undefined are falsy, every array is truthy
Truthy(v) == v.tag = "keys"

\* What response.data.keys can be on a successful GET of JWK_URL.
RemoteDocs ==
  { JsKeys(<< >>), JsKeys(<<K1>>), JsKeys(<<K1, K2>>), JsKeys(<<K2>>),
    JsKeys(<<K1, K3>>), JsUndefined }

\* ---------------------------------------------------------------- tokens
NoKid == ""
NoExp == -1
\* The authToken cookie. form: "absent" (no cookie), "empty" (the empty
\* string), "garbage" (jwt.decode returns null), "jwt" (a decodable JWS).
Jwt(kid, alg, sig, iss, exp, sub) ==
  [form |-> "jwt", kid |-> kid, alg |-> alg, sig |-> sig,
   iss |-> iss, exp |-> exp, sub |-> sub]
NonJwt(form) ==
  [form |-> form, kid |-> NoKid, alg |-> "none", sig |-> "forged",
   iss |-> "", exp |-> NoExp, sub |-> ""]

Kids == {"abc", "xyz", NoKid}
Algs == {"RS256", "HS256", "none"}
Sigs == {"m1", "m2", "forged"}
Issuers == {ISSUER, "https://evil.example"}
Exps == {StartSec - 1, StartSec + 1, NoExp}

AllCookies ==
  { Jwt(k, a, s, i, e, "user-1") :
      k \in Kids, a \in Algs, s \in Sigs, i \in Issuers, e \in Exps }
  \cup { NonJwt("absent"), NonJwt("empty"), NonJwt("garbage") }

\* The cookies and key documents used when several requests run concurrently.
CoreCookies ==
  { Jwt("abc", "RS256", "m1", ISSUER, NoExp, "user-1"),
    Jwt("xyz", "RS256", "m2", ISSUER, NoExp, "user-1"),
    NonJwt("absent") }
CoreDocs == { JsKeys(<<K1>>), JsKeys(<<K1, K2>>) }

\* --------------------------------------------------------------- results
NoUser == [sub |-> "", iss |-> "", exp |-> NoExp]
NoReply == [code |-> 0, message |-> ""]
NoTokenReply == [code |-> 401, message |-> "No authentication token provided"]
InvalidTokenReply == [code |-> 401, message |-> "Invalid authentication token"]

NoError == ""
ErrFormat == "Invalid token format"
ErrJwks == "Failed to retrieve JWKs"
ErrKid == "Invalid token signature: Key ID not found"
ErrInvalid == "Invalid token"
ErrType == "TypeError"
ErrPem == "Unsupported key type"

VARIABLES
  jwksCache,      \* module variable jwksCache
  jwksLastFetch,  \* module variable jwksLastFetch
  now,            \* Date.now()
  ticks,          \* clock advances so far
  remote,         \* the document the key endpoint currently serves
  pc,             \* per request: where authentication() stands
  cookie,         \* per request: request.cookies.authToken
  nowAt,          \* per request: local `now` of getJwks
  jwks,           \* per request: local `jwks` of validateToken
  user,           \* per request: request.user
  reply,          \* per request: the reply sent by authentication()
  error,          \* per request: the error caught by authentication()
  gets,           \* per request: axios.get calls made for it
  hPc,            \* route handler: "idle", "awaiting" (cognitoClient.send), "replied"
  hReq,           \* route handler: the request being handled
  hCall,          \* route handler: the command sent to the identity provider
  hReply,         \* route handler: the reply (status, body, cookies)
  hErr            \* route handler: the error caught by the handler's catch block

vars == <<jwksCache, jwksLastFetch, now, ticks, remote, pc, cookie, nowAt,
          jwks, user, reply, error, gets, hPc, hReq, hCall, hReply, hErr>>

authVars == <<jwksCache, jwksLastFetch, now, ticks, remote, pc, cookie, nowAt,
              jwks, user, reply, error, gets>>
httpVars == <<hPc, hReq, hCall, hReply, hErr>>

cacheVars == <<jwksCache, jwksLastFetch>>
envVars == <<now, ticks, remote>>

\* ----------------------------------------------------- library functions
\* jwt.decode(token, {complete: true}) yields a header iff the cookie is a JWS
Decodable(c) == c.form = "jwt"

\* mutant: the missing-token test is lost
NoToken_Never(c) == FALSE

\* authentication()'s `!token`: no cookie, or the empty string
NoToken(c) == c.form \in {"absent", "empty"}

\* mutant: the header's kid is not checked
Malformed_NoKidCheck(c) == ~Decodable(c)

\* validateToken's format check: no decoded token, or no kid in its header
Malformed(c) == ~Decodable(c) \/ c.kid = NoKid

\* jwks.find((k) => k.kid === kid): index of the first match, 0 if none
RECURSIVE FindFrom(_, _, _)
FindFrom(ks, kid, i) ==
  IF i > Len(ks) THEN 0
  ELSE IF ks[i].kid = kid THEN i
  ELSE FindFrom(ks, kid, i + 1)
Find(ks, kid) == FindFrom(ks, kid, 1)

\* jwkToPem(key) throws on a key type it does not support
PemOk(key) == key.kty \in {"RSA", "EC"}

\* mutant: jwt.verify called with ignoreExpiration
JwtVerify_NoExpiry(c, key, t) ==
  /\ c.alg \in ALGORITHMS
  /\ c.sig = key.n
  /\ c.iss = ISSUER

\* mutant: jwt.verify called without the algorithms option
JwtVerify_AnyAlg(c, key, t) ==
  /\ c.sig = key.n
  /\ (c.exp = NoExp \/ (t \div 1000) < c.exp)
  /\ c.iss = ISSUER

\* jwt.verify(token, pem, {issuer, algorithms}) at clock value t (ms)
JwtVerify(c, key, t) ==
  /\ c.alg \in ALGORITHMS
  /\ c.sig = key.n
  /\ (c.exp = NoExp \/ (t \div 1000) < c.exp)
  /\ c.iss = ISSUER

\* mutant: the identity carries the issuer where the subject belongs
Payload_IssAsSub(c) == [sub |-> c.iss, iss |-> c.iss, exp |-> c.exp]

\* the decoded payload jwt.verify returns
Payload(c) == [sub |-> c.sub, iss |-> c.iss, exp |-> c.exp]

\* ----------------------------------------------------------- route data
\* A string-valued JavaScript slot that is undefined (absent cookie or field).
Undef == "<undefined>"
Falsy(x) == x \in {"", Undef}

\* process.env.AWS_COGNITO_CLIENT_ID / AWS_COGNITO_CLIENT_SECRET
CLIENT_ID == "client-1"
CLIENT_SECRET == "secret-1"

AUTH_TOKEN == "authToken"
REFRESH_TOKEN == "refreshToken"
EMAIL_COOKIE == "email"
SessionCookies == {AUTH_TOKEN, REFRESH_TOKEN, EMAIL_COOKIE}

\* crypto.createHmac("SHA256", key).update(data).digest("base64"); the digest
\* is kept symbolic: which key and which data went into it
HmacSha256Base64(key, data) ==
  [hmac |-> "SHA256", key |-> key, data |-> data, enc |-> "base64"]
NoHash == [hmac |-> "", key |-> "", data |-> "", enc |-> ""]

calculateSecretHash(clientId, clientSecret, username) ==
  HmacSha256Base64(clientSecret, username \o clientId)

\* mutant: client id and client secret change places
generateSecretHash_Swapped(email) ==
  calculateSecretHash(CLIENT_SECRET, CLIENT_ID, email)

generateSecretHash(email) == calculateSecretHash(CLIENT_ID, CLIENT_SECRET, email)

\* The routes of userController that are modelled.
Routes ==
  { "/me", "/get-auth-token", "/", "/confirm", "/refresh-token", "/login",
    "/forgot-password", "/confirm-forgot-password",
    "/resend-confirmation-code" }
ClearingRoutes == {"/me", "/refresh-token"}

Emails == {"ann@x.io", "bob@x.io"}
\* An inbound request: its route, its three cookies, its body (body.user).
\* request.headers.origin: absent, empty, an allowed origin, or another one
Origins ==
  { Undef, "", "https://ai.jonathanmau.com", "https://www.ai.jonathanmau.com",
    "https://api.jonathanmau.com", "http://localhost:5173",
    "https://evil.example", "null" }
\* process.env.NODE_ENV as the handler reads it
NodeEnvs == {"development", "production"}
Requests ==
  [route : Routes \ {"/get-auth-token"},
   authToken : {Undef, "at-1"},
   refreshToken : {Undef, "rt-1"},
   emailCookie : {Undef} \cup Emails,
   email : Emails,
   code : {"123456"},
   password : {"pw-1"},
   origin : {Undef},
   nodeEnv : {"production"}]
  \cup
  [route : {"/get-auth-token"},
   authToken : {Undef, "at-1"},
   refreshToken : {Undef},
   emailCookie : {Undef},
   email : {""},
   code : {""},
   password : {""},
   origin : Origins,
   nodeEnv : NodeEnvs]
NoRequest ==
  [route |-> "", authToken |-> Undef, refreshToken |-> Undef,
   emailCookie |-> Undef, email |-> "", code |-> "", password |-> "",
   origin |-> Undef, nodeEnv |-> ""]

\* A command handed to cognitoClient.send.
Command(op, clientId, username, hash, token, code, password) ==
  [op |-> op, ClientId |-> clientId, Username |-> username, SecretHash |-> hash, Token |-> token,
   Code |-> code, Password |-> password]
NoCall == Command("", "", "", NoHash, "", "", "")

\* userService: the command each method sends
createUser(u) ==
  Command("SignUp", CLIENT_ID, u.email, generateSecretHash(u.email), "", "", u.password)
confirmUser(email, confirmationCode) ==
  Command("ConfirmSignUp", CLIENT_ID, email, generateSecretHash(email), "",
          confirmationCode, "")
login(u) ==
  Command("InitiateAuth:USER_PASSWORD_AUTH", CLIENT_ID, u.email,
          calculateSecretHash(CLIENT_ID, CLIENT_SECRET, u.email), "", "",
          u.password)
verifyUser(token) == Command("GetUser", "", "", NoHash, token, "", "")
forgotPassword(email) ==
  Command("ForgotPassword", CLIENT_ID, email, generateSecretHash(email), "", "", "")
confirmForgotPassword(email, code, password) ==
  Command("ConfirmForgotPassword", CLIENT_ID, email,
          generateSecretHash(email), "", code, password)
resendConfirmationCode(email) ==
  Command("ResendConfirmationCode", CLIENT_ID, email,
          generateSecretHash(email), "", "", "")
refreshToken(token, email) ==
  Command("InitiateAuth:REFRESH_TOKEN_AUTH", CLIENT_ID, "",
          generateSecretHash(email), token, "", "")

\* response.AuthenticationResult of an InitiateAuth call
AuthResult(present, access, refresh) ==
  [present |-> present, AccessToken |-> access, RefreshToken |-> refresh]
AuthResults ==
  { AuthResult(FALSE, Undef, Undef),
    AuthResult(TRUE, Undef, Undef),
    AuthResult(TRUE, "at-2", Undef),
    AuthResult(TRUE, "at-2", "rt-2") }

\* ---------------------------------------------------------------- errors
\* class: "AppError", "AuthError" (instances of AppError), "Error",
\* "TypeError", or "Cognito" (an exception thrown by cognitoClient.send)
MkError(class, type, name, message, statusCode, errorCode) ==
  [class |-> class, type |-> type, name |-> name, message |-> message,
   statusCode |-> statusCode, errorCode |-> errorCode]
AppError(message, statusCode, errorCode) ==
  MkError("AppError", "", "AppError", message, statusCode, errorCode)
AuthError(message, errorCode) ==
  MkError("AuthError", "", "AuthError", message, 401, errorCode)
PlainError(message) == MkError("Error", "", "Error", message, 0, "")
DestructureError ==
  MkError("TypeError", "", "TypeError",
          "Cannot destructure property 'AccessToken' of '(intermediate value)' as it is undefined.",
          0, "")
CognitoError(type, name, message) ==
  MkError("Cognito", type, name, message, 0, "")
\* no error has been caught
NoCaught == MkError("", "", "", "", 0, "")
InstanceOfAppError(e) == e.class \in {"AppError", "AuthError"}

CognitoTypes ==
  { "UserNotConfirmedException", "NotAuthorizedException",
    "UserNotFoundException", "PasswordResetRequiredException",
    "CodeMismatchException", "ExpiredCodeException",
    "TooManyRequestsException", "InvalidPasswordException",
    "UsernameExistsException", "LimitExceededException",
    "InternalErrorException", "InvalidParameterException" }
CognitoMessages ==
  { "Incorrect username or password.", "Access Token has expired",
    "User is Unauthorized", "Missing required parameter REFRESH_TOKEN", "" }
\* What cognitoClient.send can throw: with the type in __type and name, or in
\* name only.
CognitoErrors ==
  { CognitoError(t, t, m) : t \in CognitoTypes, m \in CognitoMessages }
  \cup { CognitoError("", t, m) : t \in CognitoTypes, m \in CognitoMessages }
  \cup { PlainError("getaddrinfo ENOTFOUND cognito-idp") }

\* String.prototype.toLowerCase and String.prototype.includes
UpperCase == <<"A", "B", "C", "D", "E", "F", "G", "H", "I", "J", "K", "L", "M",
               "N", "O", "P", "Q", "R", "S", "T", "U", "V", "W", "X", "Y", "Z">>
LowerCase == <<"a", "b", "c", "d", "e", "f", "g", "h", "i", "j", "k", "l", "m",
               "n", "o", "p", "q", "r", "s", "t", "u", "v", "w", "x", "y", "z">>
LowerChar(ch) ==
  IF \E i \in 1 .. 26 : UpperCase[i] = ch
    THEN LowerCase[CHOOSE i \in 1 .. 26 : UpperCase[i] = ch]
    ELSE ch
RECURSIVE ToLowerCase(_)
ToLowerCase(str) ==
  IF Len(str) = 0 THEN ""
  ELSE LowerChar(SubSeq(str, 1, 1)) \o ToLowerCase(SubSeq(str, 2, Len(str)))
Includes(str, part) ==
  \E i \in 1 .. (Len(str) - Len(part) + 1) :
    SubSeq(str, i, i + Len(part) - 1) = part

\* handleCognitoError: the message and status of each recognised type
KnownCognito ==
  [ UserNotConfirmedException |->
      [m |-> "User not confirmed. Please check your email for a verification link.", c |-> 403],
    NotAuthorizedException |->
      [m |-> "Incorrect username or password. Please verify your credentials.", c |-> 401],
    UserNotFoundException |->
      [m |-> "User not found. Please register or check your email address.", c |-> 404],
    PasswordResetRequiredException |->
      [m |-> "Password reset required. Please reset your password before logging in.", c |-> 403],
    CodeMismatchException |->
      [m |-> "Invalid verification code. Please try again.", c |-> 400],
    ExpiredCodeException |->
      [m |-> "Verification code has expired. Please request a new one.", c |-> 400],
    TooManyRequestsException |->
      [m |-> "Too many requests. Please try again later.", c |-> 429],
    InvalidPasswordException |->
      [m |-> "Password does not meet requirements. It should include uppercase, lowercase, numbers, and special characters.", c |-> 400],
    UsernameExistsException |->
      [m |-> "An account with this email already exists.", c |-> 409],
    LimitExceededException |->
      [m |-> "Operation limit exceeded. Please try again later.", c |-> 429] ]

handleCognitoError(e) ==
  LET errorType == IF e.type # "" THEN e.type
                   ELSE IF e.name # "" THEN e.name ELSE "UnknownError"
  IN IF errorType \in DOMAIN KnownCognito
       THEN AppError(KnownCognito[errorType].m, KnownCognito[errorType].c,
                     errorType)
       ELSE AppError("An authentication error occurred. Please try again later.",
                     500, "INTERNAL_AUTH_ERROR")

\* sendErrorResponse: the AppError whose status, message and code are sent
ToAppError(e) ==
  LET lower == ToLowerCase(e.message)
      e1 == IF ~InstanceOfAppError(e)
               /\ (Includes(lower, "unauthorized") \/ Includes(lower, "token"))
              THEN AuthError(IF e.message # "" THEN e.message
                             ELSE "Authentication required", "AUTH_REQUIRED")
              ELSE e
  IN IF InstanceOfAppError(e1) THEN e1
     ELSE IF e1.type # "" THEN handleCognitoError(e1)
     ELSE AppError(IF e1.message # "" THEN e1.message
                   ELSE "An unexpected error occurred", 500,
                   "INTERNAL_SERVER_ERROR")

\* A reply: status, body.error, body.errorCode, the cookies set (name, value,
\* maxAge), the cookies cleared, and body.authToken.
NoMaxAge == -1
HReply(code, err, errorCode, set, cleared) ==
  [code |-> code, error |-> err, errorCode |-> errorCode, set |-> set,
   cleared |-> cleared, authToken |-> Undef]
NoHReply == HReply(0, "", "", {}, {})
SetCookie(name, value, maxAge) ==
  [name |-> name, value |-> value, maxAge |-> maxAge]

sendErrorResponse(e, cleared) ==
  HReply(ToAppError(e).statusCode, ToAppError(e).message,
         ToAppError(e).errorCode, {}, cleared)

\* ------------------------------------------------------------------ init
Init ==
  /\ jwksCache = JsNull
  /\ jwksLastFetch = 0
  /\ now = StartNow
  /\ ticks = 0
  /\ remote = JsKeys(<<K1>>)
  /\ pc = [r \in Req |-> "idle"]
  /\ cookie = [r \in Req |-> NonJwt("absent")]
  /\ nowAt = [r \in Req |-> 0]
  /\ jwks = [r \in Req |-> JsNull]
  /\ user = [r \in Req |-> NoUser]
  /\ reply = [r \in Req |-> NoReply]
  /\ error = [r \in Req |-> NoError]
  /\ gets = [r \in Req |-> 0]
  /\ hPc = "idle"
  /\ hReq = NoRequest
  /\ hCall = NoCall
  /\ hReply = NoHReply
  /\ hErr = NoCaught

\* --------------------------------------------------------------- actions
\* the reply of the framework's error handler to an unhandled exception
InternalErrorReply == [code |-> 500, message |-> "An unexpected error occurred"]

\* mutant: only the errors validateToken throws itself are caught
Reject_TokenErrorsOnly(r, e) ==
  /\ pc' = [pc EXCEPT ![r] = "done"]
  /\ error' = [error EXCEPT ![r] = e]
  /\ reply' = [reply EXCEPT ![r] =
                 IF e \in {ErrType, ErrPem} THEN InternalErrorReply
                 ELSE InvalidTokenReply]
  /\ UNCHANGED user

\* authentication() ends in its catch block with `e` caught
Reject(r, e) ==
  /\ pc' = [pc EXCEPT ![r] = "done"]
  /\ error' = [error EXCEPT ![r] = e]
  /\ reply' = [reply EXCEPT ![r] = InvalidTokenReply]
  /\ UNCHANGED user

\* mutant: any cache older than the current millisecond is refreshed
NeedsFetch_NoTtl == ~Truthy(jwksCache) \/ now - jwksLastFetch > 0

\* getJwks() needs the network: cache missing or older than the TTL
NeedsFetch == ~Truthy(jwksCache) \/ now - jwksLastFetch > CACHE_TTL

\* A request arrives with cookie c: authentication() runs up to its first
\* pending await (the axios.get of getJwks, or getJwks's own promise).
Authenticate(r, c) ==
  /\ pc[r] = "idle"
  /\ UNCHANGED httpVars
  /\ cookie' = [cookie EXCEPT ![r] = c]
  /\ UNCHANGED <<cacheVars, envVars>>
  /\ IF NoToken(c)
       THEN /\ pc' = [pc EXCEPT ![r] = "done"]
            /\ reply' = [reply EXCEPT ![r] = NoTokenReply]
            /\ UNCHANGED <<error, user, nowAt, jwks, gets>>
     ELSE IF Malformed(c)
       THEN /\ Reject(r, ErrFormat)
            /\ UNCHANGED <<nowAt, jwks, gets>>
     ELSE /\ UNCHANGED <<error, user, reply>>
          /\ IF NeedsFetch
               THEN /\ pc' = [pc EXCEPT ![r] = "fetching"]
                    /\ nowAt' = [nowAt EXCEPT ![r] = now]
                    /\ gets' = [gets EXCEPT ![r] = @ + 1]
                    /\ UNCHANGED jwks
               ELSE /\ pc' = [pc EXCEPT ![r] = "gotKeys"]
                    /\ jwks' = [jwks EXCEPT ![r] = jwksCache]
                    /\ UNCHANGED <<nowAt, gets>>

\* mutant: the keys are stored but the fetch timestamp is not
FetchOk_NoStamp(r) ==
  /\ pc[r] = "fetching"
  /\ UNCHANGED httpVars
  /\ jwksCache' = remote
  /\ jwks' = [jwks EXCEPT ![r] = remote]
  /\ pc' = [pc EXCEPT ![r] = "gotKeys"]
  /\ nowAt' = [nowAt EXCEPT ![r] = 0]
  /\ UNCHANGED <<jwksLastFetch, envVars, cookie, user, reply, error, gets>>

\* mutant: a fetched document is stored only while nothing is cached
FetchOk_FirstWins(r) ==
  /\ pc[r] = "fetching"
  /\ UNCHANGED httpVars
  /\ jwksCache' = IF Truthy(jwksCache) THEN jwksCache ELSE remote
  /\ jwksLastFetch' = nowAt[r]
  /\ jwks' = [jwks EXCEPT ![r] = remote]
  /\ pc' = [pc EXCEPT ![r] = "gotKeys"]
  /\ nowAt' = [nowAt EXCEPT ![r] = 0]
  /\ UNCHANGED <<envVars, cookie, user, reply, error, gets>>

\* axios.get resolves: the keys are stored and returned
FetchOk(r) ==
  /\ pc[r] = "fetching"
  /\ UNCHANGED httpVars
  /\ jwksCache' = remote
  /\ jwksLastFetch' = nowAt[r]
  /\ jwks' = [jwks EXCEPT ![r] = remote]
  /\ pc' = [pc EXCEPT ![r] = "gotKeys"]
  /\ nowAt' = [nowAt EXCEPT ![r] = 0]
  /\ UNCHANGED <<envVars, cookie, user, reply, error, gets>>

\* mutant: a failed fetch caches an empty key array
FetchFail_StoresEmpty(r) ==
  /\ pc[r] = "fetching"
  /\ UNCHANGED httpVars
  /\ Reject(r, ErrJwks)
  /\ jwksCache' = JsKeys(<< >>)
  /\ jwksLastFetch' = nowAt[r]
  /\ nowAt' = [nowAt EXCEPT ![r] = 0]
  /\ UNCHANGED <<envVars, cookie, jwks, gets>>

\* axios.get rejects: getJwks throws, nothing is stored
FetchFail(r) ==
  /\ pc[r] = "fetching"
  /\ UNCHANGED httpVars
  /\ Reject(r, ErrJwks)
  /\ nowAt' = [nowAt EXCEPT ![r] = 0]
  /\ UNCHANGED <<cacheVars, envVars, cookie, jwks, gets>>

\* validateToken() after `await getJwks()`: find, jwkToPem, jwt.verify
VerifyError(c, ks, t) ==
  IF ~Truthy(ks) THEN ErrType
  ELSE IF Find(ks.keys, c.kid) = 0 THEN ErrKid
  ELSE IF ~PemOk(ks.keys[Find(ks.keys, c.kid)]) THEN ErrPem
  ELSE IF ~JwtVerify(c, ks.keys[Find(ks.keys, c.kid)], t) THEN ErrInvalid
  ELSE NoError

\* mutant: the verified identity is kept in one place for all requests
Verify_SharedUser(r) ==
  /\ pc[r] = "gotKeys"
  /\ UNCHANGED httpVars
  /\ LET e == VerifyError(cookie[r], jwks[r], now)
     IN IF e = NoError
          THEN /\ user' = [q \in Req |-> Payload(cookie[r])]
               /\ pc' = [pc EXCEPT ![r] = "done"]
               /\ UNCHANGED <<reply, error>>
          ELSE Reject(r, e)
  /\ jwks' = [jwks EXCEPT ![r] = JsNull]
  /\ UNCHANGED <<cacheVars, envVars, cookie, nowAt, gets>>

\* mutant: verification waits while another request is fetching keys
Verify_Locked(r) ==
  /\ pc[r] = "gotKeys"
  /\ \A q \in Req \ {r} : pc[q] # "fetching"
  /\ UNCHANGED httpVars
  /\ LET e == VerifyError(cookie[r], jwks[r], now)
     IN IF e = NoError
          THEN /\ user' = [user EXCEPT ![r] = Payload(cookie[r])]
               /\ pc' = [pc EXCEPT ![r] = "done"]
               /\ UNCHANGED <<reply, error>>
          ELSE Reject(r, e)
  /\ jwks' = [jwks EXCEPT ![r] = JsNull]
  /\ UNCHANGED <<cacheVars, envVars, cookie, nowAt, gets>>

Verify(r) ==
  /\ pc[r] = "gotKeys"
  /\ UNCHANGED httpVars
  /\ LET e == VerifyError(cookie[r], jwks[r], now)
     IN IF e = NoError
          THEN /\ user' = [user EXCEPT ![r] = Payload(cookie[r])]
               /\ pc' = [pc EXCEPT ![r] = "done"]
               /\ UNCHANGED <<reply, error>>
          ELSE Reject(r, e)
  /\ jwks' = [jwks EXCEPT ![r] = JsNull]
  /\ UNCHANGED <<cacheVars, envVars, cookie, nowAt, gets>>

\* The request is over; its slot serves the next request.
Finish(r) ==
  /\ pc[r] = "done"
  /\ UNCHANGED httpVars
  /\ pc' = [pc EXCEPT ![r] = "idle"]
  /\ cookie' = [cookie EXCEPT ![r] = NonJwt("absent")]
  /\ user' = [user EXCEPT ![r] = NoUser]
  /\ reply' = [reply EXCEPT ![r] = NoReply]
  /\ error' = [error EXCEPT ![r] = NoError]
  /\ gets' = [gets EXCEPT ![r] = 0]
  /\ UNCHANGED <<cacheVars, envVars, nowAt, jwks>>

\* Time passes.
Tick(d) ==
  /\ ticks < MaxTicks
  /\ UNCHANGED httpVars
  /\ ticks' = ticks + 1
  /\ now' = now + d
  /\ UNCHANGED <<cacheVars, remote, pc, cookie, nowAt, jwks, user, reply,
                 error, gets>>

\* The identity provider publishes another key document.
Rotate(doc) ==
  /\ doc # remote
  /\ UNCHANGED httpVars
  /\ remote' = doc
  /\ UNCHANGED <<cacheVars, now, ticks, pc, cookie, nowAt, jwks, user, reply,
                 error, gets>>

\* --------------------------------------------------------- route actions
\* request.body.user
BodyUser(req) == [email |-> req.email, code |-> req.code, password |-> req.password]

\* mutant: the email cookie is not required for a refresh
Sends_NoEmailCheck(req) ==
  CASE req.route = "/me" ->
         IF Falsy(req.authToken) THEN NoCall ELSE verifyUser(req.authToken)
    [] req.route = "/get-auth-token" -> NoCall
    [] req.route = "/" -> createUser(BodyUser(req))
    [] req.route = "/confirm" -> confirmUser(req.email, req.code)
    [] req.route = "/refresh-token" ->
         IF Falsy(req.refreshToken) THEN NoCall
         ELSE refreshToken(req.refreshToken, req.emailCookie)
    [] req.route = "/login" -> login(BodyUser(req))
    [] req.route = "/forgot-password" -> forgotPassword(req.email)
    [] req.route = "/confirm-forgot-password" ->
         confirmForgotPassword(req.email, req.code, req.password)
    [] req.route = "/resend-confirmation-code" ->
         resendConfirmationCode(req.email)

\* The command a handler hands to cognitoClient.send, NoCall when the handler
\* replies without calling the provider.
Sends(req) ==
  CASE req.route = "/me" ->
         IF Falsy(req.authToken) THEN NoCall ELSE verifyUser(req.authToken)
    [] req.route = "/get-auth-token" -> NoCall
    [] req.route = "/" -> createUser(BodyUser(req))
    [] req.route = "/confirm" -> confirmUser(req.email, req.code)
    [] req.route = "/refresh-token" ->
         IF Falsy(req.refreshToken) \/ Falsy(req.emailCookie) THEN NoCall
         ELSE refreshToken(req.refreshToken, req.emailCookie)
    [] req.route = "/login" -> login(BodyUser(req))
    [] req.route = "/forgot-password" -> forgotPassword(req.email)
    [] req.route = "/confirm-forgot-password" ->
         confirmForgotPassword(req.email, req.code, req.password)
    [] req.route = "/resend-confirmation-code" ->
         resendConfirmationCode(req.email)

\* The catch block of a handler: /me and /refresh-token clear the session
\* cookies before sendErrorResponse, the other routes only send the error.
CatchReply(req, e) ==
  sendErrorResponse(e, IF req.route \in ClearingRoutes THEN SessionCookies
                       ELSE {})

\* Array.prototype.includes
ArrayIncludes(arr, x) == \E i \in 1 .. Len(arr) : arr[i] = x

\* mutant: the development origin is allowed in every environment
allowedOrigins_AlwaysDev(nodeEnv) ==
  << "https://ai.jonathanmau.com", "https://www.ai.jonathanmau.com",
     "https://api.jonathanmau.com", "http://localhost:5173" >>

\* allowedOrigins of GET /get-auth-token
allowedOrigins(nodeEnv) ==
  << "https://ai.jonathanmau.com", "https://www.ai.jonathanmau.com",
     "https://api.jonathanmau.com" >>
  \o (IF nodeEnv = "development" THEN <<"http://localhost:5173">> ELSE <<>>)

\* What a handler that does not reach cognitoClient.send throws: verifyUser
\* throws on a falsy token, /refresh-token returns without throwing.
EarlyThrown(req) ==
  IF req.route = "/me"
    THEN AuthError("Authentication required", "MISSING_TOKEN")
    ELSE NoCaught

\* The reply of a handler that does not reach cognitoClient.send.
EarlyReply(req) ==
  CASE EarlyThrown(req) # NoCaught -> CatchReply(req, EarlyThrown(req))
    [] req.route = "/get-auth-token" ->
         IF ~Falsy(req.origin)
              /\ ~ArrayIncludes(allowedOrigins(req.nodeEnv), req.origin)
           THEN HReply(403, "Forbidden", "", {}, {})
           ELSE [HReply(200, "", "", {}, {}) EXCEPT !.authToken = req.authToken]
    [] OTHER -> HReply(401, "Missing refresh token or email",
                       "INVALID_REFRESH_REQUEST", {}, {})

\* What a handler throws after its call returned res: login() on a missing
\* access token, the destructuring in /refresh-token on an undefined result.
OkThrown(req, res) ==
  CASE req.route = "/login" /\ (~res.present \/ Falsy(res.AccessToken)) ->
         PlainError("Missing authentication token")
    [] req.route = "/refresh-token" /\ ~res.present -> DestructureError
    [] OTHER -> NoCaught

\* The reply of a handler whose call returned res.
OkReply(req, res) ==
  CASE OkThrown(req, res) # NoCaught -> CatchReply(req, OkThrown(req, res))
    [] req.route = "/login" ->
         HReply(200, "", "",
                { SetCookie(AUTH_TOKEN, res.AccessToken, NoMaxAge),
                  SetCookie(REFRESH_TOKEN, res.RefreshToken, NoMaxAge),
                  SetCookie(EMAIL_COOKIE, req.email, NoMaxAge) }, {})
    [] req.route = "/refresh-token" ->
         HReply(200, "", "",
                { SetCookie(AUTH_TOKEN, res.AccessToken, 12 * 60 * 60) }
                \cup (IF Falsy(res.RefreshToken) THEN {}
                      ELSE { SetCookie(REFRESH_TOKEN, res.RefreshToken,
                                       7 * 24 * 60 * 60) }), {})
    [] OTHER -> HReply(200, "", "", {}, {})

\* A request arrives and its handler runs to its first await, or to its reply.
Handle(req) ==
  /\ hPc = "idle"
  /\ UNCHANGED authVars
  /\ hReq' = req
  /\ hCall' = Sends(req)
  /\ IF Sends(req) = NoCall
       THEN /\ hPc' = "replied"
            /\ hReply' = EarlyReply(req)
            /\ hErr' = EarlyThrown(req)
       ELSE /\ hPc' = "awaiting"
            /\ hReply' = NoHReply
            /\ hErr' = NoCaught

\* cognitoClient.send resolves; only InitiateAuth responses carry an
\* AuthenticationResult.
CognitoOk(res) ==
  /\ hPc = "awaiting"
  /\ UNCHANGED authVars
  /\ hReq.route \in {"/login", "/refresh-token"} \/ ~res.present
  /\ hPc' = "replied"
  /\ hReply' = OkReply(hReq, res)
  /\ hErr' = OkThrown(hReq, res)
  /\ UNCHANGED <<hReq, hCall>>

\* cognitoClient.send rejects with e.
CognitoFail(e) ==
  /\ hPc = "awaiting"
  /\ UNCHANGED authVars
  /\ hPc' = "replied"
  /\ hReply' = CatchReply(hReq, e)
  /\ hErr' = e
  /\ UNCHANGED <<hReq, hCall>>

\* The reply is on the wire; the handler's locals are gone.
HFinish ==
  /\ hPc = "replied"
  /\ UNCHANGED authVars
  /\ hPc' = "idle"
  /\ hReq' = NoRequest
  /\ hCall' = NoCall
  /\ hReply' = NoHReply
  /\ hErr' = NoCaught

\* -------------------------------------------------------- specifications
\* Concurrent requests over the core cookies.
Next ==
  \/ \E r \in Req, c \in CoreCookies : Authenticate(r, c)
  \/ \E r \in Req : FetchOk(r)
  \/ \E r \in Req : FetchFail(r)
  \/ \E r \in Req : Verify(r)
  \/ \E r \in Req : Finish(r)
  \/ \E d \in TickSteps : Tick(d)
  \/ \E doc \in CoreDocs : Rotate(doc)

Spec == Init /\ [][Next]_vars

\* One request at a time over every cookie shape.
NextTok ==
  \/ \E c \in AllCookies : Authenticate(1, c)
  \/ FetchOk(1)
  \/ FetchFail(1)
  \/ Verify(1)
  \/ Finish(1)
  \/ \E d \in TickSteps : Tick(d)
  \/ \E doc \in RemoteDocs : Rotate(doc)

SpecTok == Init /\ [][NextTok]_vars

\* Scheduling: a continuation whose promise has resolved does run (Verify).
\* Nothing bounds the wait for the key endpoint: axios.get is called without
\* a timeout, so neither outcome of a pending GET is guaranteed to happen.
SpecLive == Init /\ [][Next]_vars /\ \A r \in Req : WF_vars(Verify(r))

\* The route handlers alone, one request at a time.
NextRoutes ==
  \/ \E req \in Requests : Handle(req)
  \/ \E res \in AuthResults : CognitoOk(res)
  \/ \E e \in CognitoErrors : CognitoFail(e)
  \/ HFinish

SpecRoutes == Init /\ [][NextRoutes]_vars

\* GET /me next to the authentication decorator: the route is registered
\* without a hook that calls server.authentication, so the two run
\* independently of each other.
MeRequests ==
  { req \in Requests : /\ req.route = "/me"
                       /\ req.refreshToken = Undef
                       /\ req.emailCookie = Undef
                       /\ req.email = "ann@x.io" }
MeErrors ==
  { CognitoError("NotAuthorizedException", "NotAuthorizedException",
                 "Access Token has expired") }
NextMe ==
  \/ \E c \in CoreCookies : Authenticate(1, c)
  \/ FetchOk(1)
  \/ FetchFail(1)
  \/ Verify(1)
  \/ Finish(1)
  \/ \E d \in TickSteps : Tick(d)
  \/ \E doc \in CoreDocs : Rotate(doc)
  \/ \E req \in MeRequests : Handle(req)
  \/ CognitoOk(AuthResult(FALSE, Undef, Undef))
  \/ \E e \in MeErrors : CognitoFail(e)
  \/ HFinish

SpecMe == Init /\ [][NextMe]_vars

\* ---------------------------------------------------------------- claims
\* kid is the identifier of some key of the key array ks
HasKid(ks, kid) == Truthy(ks) /\ \E i \in 1 .. Len(ks.keys) : ks.keys[i].kid = kid
\* the token's signature validates against a key of ks carrying its kid
SignedBy(ks, c) ==
  Truthy(ks) /\ \E i \in 1 .. Len(ks.keys) :
                   ks.keys[i].kid = c.kid /\ ks.keys[i].n = c.sig
Expired(c, t) == c.exp # NoExp /\ (t \div 1000) >= c.exp
\* request r ends in this step
Ends(r) == pc[r] # "done" /\ pc'[r] = "done"
\* request r enters authentication() in this step
Starts(r) == pc[r] = "idle" /\ pc'[r] # "idle"

\* C1: request.user is set only for a token whose kid matched a key of the
\* key set getJwks returned and that passed the signature, issuer, RS256 and
\* expiry checks; a token with a missing or unknown kid, an expired token, a
\* wrong issuer or another algorithm ends with a 401 and no identity.
C1_IdentityOnlyIfVerified ==
  [][\A r \in Req :
       /\ (user[r] = NoUser /\ user'[r] # NoUser) =>
            /\ pc[r] = "gotKeys"
            /\ HasKid(jwks[r], cookie[r].kid)
            /\ SignedBy(jwks[r], cookie[r])
            /\ cookie[r].iss = ISSUER
            /\ cookie[r].alg = "RS256"
            /\ ~Expired(cookie[r], now)
            /\ user'[r].sub = cookie[r].sub
       /\ (/\ Ends(r)
           /\ cookie'[r].form = "jwt"
           /\ \/ cookie'[r].kid = NoKid
              \/ pc[r] = "gotKeys" /\ ~HasKid(jwks[r], cookie'[r].kid)
              \/ Expired(cookie'[r], now)
              \/ cookie'[r].iss # ISSUER
              \/ cookie'[r].alg # "RS256") =>
            /\ user'[r] = NoUser
            /\ reply'[r].code = 401]_vars

\* an identity was attached for a token that carries an expiry
C1_Witness ==
  \E r \in Req : pc[r] = "done" /\ user[r] # NoUser /\ cookie[r].exp # NoExp

\* C2: a getJwks() call that finds a cached set younger than the TTL returns
\* that set and makes no network call.
C2_FreshCacheNoFetch ==
  [][\A r \in Req :
       (/\ Starts(r)
        /\ ~Malformed(cookie'[r]) /\ cookie'[r].form = "jwt"
        /\ Truthy(jwksCache)
        /\ now - jwksLastFetch < CACHE_TTL) =>
         /\ pc'[r] = "gotKeys"
         /\ jwks'[r] = jwksCache
         /\ gets'[r] = gets[r]
         /\ UNCHANGED cacheVars]_vars

\* a call was served from a cache fetched at an earlier instant
C2_Witness ==
  \E r \in Req : /\ pc[r] = "gotKeys" /\ gets[r] = 0
                 /\ jwks[r] = jwksCache /\ Truthy(jwksCache)
                 /\ now > jwksLastFetch

\* C3: when the fetch of a getJwks() call succeeds, the cached set becomes the
\* fetched document, the fetch timestamp becomes the call's `now`, and the
\* caller receives the fetched document.
C3_FetchReplacesCache ==
  [][\A r \in Req :
       (pc[r] = "fetching" /\ pc'[r] = "gotKeys") =>
         /\ jwksCache' = remote
         /\ jwksLastFetch' = nowAt[r]
         /\ jwks'[r] = remote]_vars

\* a fetch started after the clock had advanced stored its document
C3_Witness ==
  \E r \in Req : /\ pc[r] = "gotKeys" /\ gets[r] = 1
                 /\ jwks[r] = jwksCache /\ jwksLastFetch > StartNow

\* C4 (as claimed): getJwks() fails with the fetch error only when there is
\* no cached set to fall back on; with a stale set the caller gets that set.
C4_StaleSetReturned ==
  \A r \in Req :
    (pc[r] = "done" /\ error[r] = ErrJwks) => ~Truthy(jwksCache)

\* C5: when the fetch fails and no cached set exists, the call fails with the
\* fetch error and leaves jwksCache and jwksLastFetch untouched, so the next
\* call that needs keys goes to the network again.
C5_FailureLeavesCache ==
  [][\A r \in Req :
       /\ (pc[r] = "fetching" /\ ~Truthy(jwksCache) /\ pc'[r] = "done") =>
            /\ error'[r] = ErrJwks
            /\ user'[r] = NoUser
            /\ UNCHANGED cacheVars
       /\ (/\ Starts(r)
           /\ cookie'[r].form = "jwt" /\ cookie'[r].kid # NoKid
           /\ ~Truthy(jwksCache)) =>
            /\ pc'[r] = "fetching"
            /\ gets'[r] = gets[r] + 1]_vars

\* a call failed on the fetch while nothing was cached
C5_Witness ==
  \E r \in Req : pc[r] = "done" /\ error[r] = ErrJwks /\ ~Truthy(jwksCache)

\* C6 (as claimed): a request that failed because the keys could not be
\* fetched is answered with a service-unavailable reply, not the
\* invalid-token rejection.
C6_ServiceUnavailable ==
  \A r \in Req :
    (pc[r] = "done" /\ error[r] = ErrJwks) =>
      reply[r].code = 503 /\ reply[r] # InvalidTokenReply

\* C7 (as claimed): a verification served from the cache whose key set lacks
\* the token's kid, while the endpoint serves a key with that kid, refreshes
\* the cache once and succeeds.
C7_RetryAfterRotation ==
  [][\A r \in Req :
       (/\ pc[r] = "gotKeys" /\ Ends(r)
        /\ gets[r] = 0
        /\ Truthy(jwks[r]) /\ ~HasKid(jwks[r], cookie[r].kid)
        /\ SignedBy(remote, cookie[r])
        /\ \A i \in 1 .. Len(remote.keys) : PemOk(remote.keys[i])
        /\ cookie[r].alg = "RS256" /\ cookie[r].iss = ISSUER
        /\ ~Expired(cookie[r], now)) =>
         /\ user'[r] # NoUser
         /\ gets'[r] = gets[r] + 1]_vars

\* C8 (as claimed): a verification served from the cache whose kid is in
\* neither the cached set nor the endpoint's document makes exactly one
\* refresh attempt and then rejects with the unknown-key error.
C8_OneRefreshThenReject ==
  [][\A r \in Req :
       (/\ pc[r] = "gotKeys" /\ Ends(r)
        /\ gets[r] = 0
        /\ Truthy(jwks[r]) /\ ~HasKid(jwks[r], cookie[r].kid)
        /\ ~HasKid(remote, cookie[r].kid)) =>
         /\ error'[r] = ErrKid
         /\ gets'[r] = 1]_vars

C10_MalformedImmediate ==
  [][\A r \in Req :
       (/\ Starts(r)
        /\ \/ cookie'[r].form = "garbage"
           \/ cookie'[r].form = "jwt" /\ cookie'[r].kid = NoKid) =>
         /\ pc'[r] = "done"
         /\ error'[r] = ErrFormat
         /\ reply'[r] = InvalidTokenReply
         /\ user'[r] = NoUser
         /\ gets'[r] = 0
         /\ jwks'[r] = jwks[r]
         /\ UNCHANGED cacheVars]_vars

\* a decodable token without kid was rejected while keys were cached
C10_Witness ==
  \E r \in Req : /\ pc[r] = "done" /\ error[r] = ErrFormat
                 /\ cookie[r].form = "jwt" /\ Truthy(jwksCache)

\* the key array ks holds the RSA key that signed the token, under its kid
HoldsSigningKey(ks, c) ==
  Truthy(ks) /\ \E i \in 1 .. Len(ks.keys) :
                   /\ ks.keys[i].kid = c.kid
                   /\ ks.keys[i].kty = "RSA"
                   /\ ks.keys[i].n = c.sig

\* C11: a token that is unexpired, carries the configured issuer, uses RS256
\* and is signed by a key of the key set getJwks returned is verified, and the
\* identity attached to the request carries the token's subject.
C11_ValidTokenAccepted ==
  [][\A r \in Req :
       (/\ pc[r] = "gotKeys" /\ pc'[r] # "gotKeys"
        /\ HoldsSigningKey(jwks[r], cookie[r])
        /\ cookie[r].alg = "RS256"
        /\ cookie[r].iss = ISSUER
        /\ ~Expired(cookie[r], now)) =>
         /\ pc'[r] = "done"
         /\ user'[r] # NoUser
         /\ user'[r].sub = cookie[r].sub
         /\ reply'[r] = NoReply
         /\ error'[r] = NoError]_vars

\* a token signed by the second key of a two-key document was accepted
C11_Witness ==
  \E r \in Req : /\ pc[r] = "done" /\ user[r].sub = "user-1"
                 /\ cookie[r].kid = "xyz" /\ cookie[r].sig = "m2"
                 /\ cookie[r].exp = StartSec + 1

\* a fetch of request r completes with a document in this step
Lands(r) == pc[r] = "fetching" /\ pc'[r] = "gotKeys"

\* C12: the cached key set is always one whole document of one fetch: it
\* changes only when a fetch completes, to exactly the document that fetch
\* returned to its caller, and every completing fetch stores its document,
\* so after overlapping fetches the cache holds the one that completed last.
C12_WholesaleLastLandsWins ==
  [][/\ jwksCache' # jwksCache =>
          \E r \in Req : Lands(r) /\ jwksCache' = jwks'[r]
     /\ \A r \in Req : Lands(r) =>
          /\ jwksCache' = jwks'[r]
          /\ jwksCache' \in RemoteDocs]_vars

\* two fetches overlapped: one has stored a document, the other, started at
\* the same instant, is still in flight while the endpoint serves another one
C12_Witness ==
  \E r, q \in Req :
    /\ r # q
    /\ pc[r] = "gotKeys" /\ gets[r] = 1 /\ jwksCache = jwks[r]
    /\ pc[q] = "fetching" /\ nowAt[q] = jwksLastFetch
    /\ remote # jwksCache

\* C13 (as claimed): a fetch that completes after a fetch started later has
\* stored its result is discarded: it overwrites neither the cached key set
\* nor the fetch timestamp.
C13_StaleFetchDiscarded ==
  [][\A r \in Req :
       (Lands(r) /\ Truthy(jwksCache) /\ nowAt[r] < jwksLastFetch) =>
         UNCHANGED cacheVars]_vars

\* C14 (as claimed): every pending getJwks() call eventually completes, with
\* keys or with a failure, even if the key endpoint never answers.
C14_FetchEventuallyEnds ==
  \A r \in Req : (pc[r] = "fetching") ~> (pc[r] # "fetching")

\* C15: a request without authToken cookie is answered 401 "No authentication
\* token provided" in the step it arrives: validateToken is not entered (no
\* error is caught, no key set is read), no GET is issued and the cache is
\* untouched.
C15_NoCookieNoVerifier ==
  [][\A r \in Req :
       (Starts(r) /\ cookie'[r].form = "absent") =>
         /\ pc'[r] = "done"
         /\ reply'[r] = NoTokenReply
         /\ error'[r] = NoError
         /\ user'[r] = NoUser
         /\ gets'[r] = 0
         /\ jwks'[r] = jwks[r]
         /\ nowAt'[r] = nowAt[r]
         /\ UNCHANGED cacheVars]_vars

\* a request without cookie was turned away while the cache was still empty
C15_Witness ==
  \E r \in Req : /\ pc[r] = "done" /\ reply[r] = NoTokenReply
                 /\ cookie[r].form = "absent" /\ ~Truthy(jwksCache)

\* C16: a request that carries a token always ends either with an identity
\* attached and no reply, or with the 401 invalid-token reply and no identity,
\* whatever was thrown on the way (format, fetch, unknown kid, TypeError on a
\* missing key array, key conversion, jwt.verify).
C16_EveryFailureCaught ==
  [][\A r \in Req :
       (Ends(r) /\ cookie'[r].form \in {"garbage", "jwt"}) =>
         \/ /\ user'[r] # NoUser
            /\ reply'[r] = NoReply
            /\ error'[r] = NoError
         \/ /\ user'[r] = NoUser
            /\ reply'[r] = InvalidTokenReply
            /\ error'[r] \in {ErrFormat, ErrJwks, ErrKid, ErrInvalid,
                              ErrType, ErrPem}]_vars

\* a key conversion error, thrown outside validateToken's own try, was caught
C16_Witness ==
  \E r \in Req : /\ pc[r] = "done" /\ error[r] = ErrPem
                 /\ reply[r] = InvalidTokenReply /\ user[r] = NoUser

\* C17: the only shared state a request changes is the key cache, and only
\* when its own fetch completes; a request served from the cache or rejected
\* before the key lookup changes none; request.user changes only in a step of
\* that same request.
C17_OnlyCacheIsShared ==
  [][/\ cacheVars' # cacheVars => \E r \in Req : Lands(r)
     /\ \A r \in Req :
          /\ (Starts(r) /\ pc'[r] # "fetching") => UNCHANGED cacheVars
          /\ pc[r] = "gotKeys" /\ pc'[r] = "done" => UNCHANGED cacheVars
          /\ user'[r] # user[r] => pc'[r] # pc[r]]_vars

\* one request got its identity while another one, rejected, has none
C17_Witness ==
  \E r, q \in Req :
    /\ pc[r] = "done" /\ user[r] # NoUser /\ gets[r] = 0
    /\ pc[q] = "done" /\ user[q] = NoUser /\ error[q] = ErrKid

\* C18: whenever GET /me or POST /refresh-token answers with a non-success
\* status, the authToken, refreshToken and email cookies are all cleared on
\* that reply.
C18_FailureClearsCookies ==
  (hPc = "replied" /\ hReq.route \in ClearingRoutes
     /\ hReply.code \notin 200 .. 299)
    => SessionCookies \subseteq hReply.cleared

\* The operations of the provider that take a secret hash.
HashedOps ==
  { "SignUp", "ConfirmSignUp", "InitiateAuth:USER_PASSWORD_AUTH",
    "InitiateAuth:REFRESH_TOKEN_AUTH", "ForgotPassword",
    "ConfirmForgotPassword", "ResendConfirmationCode" }
\* The email a request names: the email cookie on /refresh-token, body.user.email
\* on the other routes.
RequestEmail(req) ==
  IF req.route = "/refresh-token" THEN req.emailCookie ELSE req.email

\* C19: every call sent for sign-up, confirm, login, refresh, forgot-password,
\* confirm-forgot-password and resend-confirmation carries the secret hash of
\* (configured client id, configured client secret, email of the same request).
C19_SecretHashOfSameRequest ==
  (hPc = "awaiting" /\ hReq.route # "/me")
    => /\ hCall.op \in HashedOps
       /\ hCall.SecretHash # NoHash
       /\ hCall.SecretHash
            = calculateSecretHash(CLIENT_ID, CLIENT_SECRET, RequestEmail(hReq))

\* a refresh call is in flight whose hash is derived from the email cookie,
\* which differs from the other email in the request domain
C19_Witness ==
  /\ hPc = "awaiting"
  /\ hReq.route = "/refresh-token"
  /\ hReq.emailCookie = "bob@x.io"
  /\ hCall.op = "InitiateAuth:REFRESH_TOKEN_AUTH"
  /\ hCall.SecretHash = HmacSha256Base64(CLIENT_SECRET, "bob@x.io" \o CLIENT_ID)

\* The messages the gateway itself words.
FixedMessages ==
  { KnownCognito[t].m : t \in DOMAIN KnownCognito }
  \cup { "An authentication error occurred. Please try again later.",
         "An unexpected error occurred", "Authentication required" }
\* The reply answers an error thrown by the identity provider.
AnswersProviderError == hPc = "replied" /\ hErr.class = "Cognito"
\* The provider's code of an error: __type, or name when __type is absent.
ProviderCode(e) == IF e.type # "" THEN e.type ELSE e.name

\* C21: for every error returned by the identity provider, the error message
\* sent to the client is one of the gateway's fixed messages, never the
\* provider's own text, whatever the message contains and whether the error
\* carries __type or only a name.
C21_NoRawProviderText ==
  AnswersProviderError => hReply.error \in FixedMessages

\* The provider codes the gateway is said to recognise.
RecognisedCodes ==
  { "UserNotConfirmedException", "NotAuthorizedException",
    "UserNotFoundException", "PasswordResetRequiredException",
    "CodeMismatchException", "ExpiredCodeException",
    "TooManyRequestsException", "InvalidPasswordException",
    "UsernameExistsException" }

\* C22: a recognised provider code reaching sendErrorResponse always yields the
\* same (status, machine-readable code) pair, and two different recognised
\* provider codes never yield the same machine-readable code.
C22_OwnFixedStatusAndCode ==
  (AnswersProviderError /\ ProviderCode(hErr) \in RecognisedCodes)
    => \A e \in CognitoErrors :
         ProviderCode(e) \in RecognisedCodes =>
           IF ProviderCode(e) = ProviderCode(hErr)
             THEN /\ sendErrorResponse(e, {}).code = hReply.code
                  /\ sendErrorResponse(e, {}).errorCode = hReply.errorCode
             ELSE sendErrorResponse(e, {}).errorCode # hReply.errorCode

\* C23: a provider error whose code is not one the gateway recognises is
\* answered with status 500 and a generic internal error code, never with a
\* 4xx status or a provider-specific code.
C23_UnrecognisedIsInternal ==
  (AnswersProviderError /\ ProviderCode(hErr) \notin DOMAIN KnownCognito)
    => /\ hReply.code = 500
       /\ hReply.errorCode \in {"INTERNAL_AUTH_ERROR", "INTERNAL_SERVER_ERROR"}

\* C24: every authToken cookie set on a reply expires in 12 hours and every
\* refreshToken cookie set on a reply expires in 7 days.
C24_CookieLifetimes ==
  hPc = "replied" =>
    \A c \in hReply.set :
      /\ c.name = AUTH_TOKEN => c.maxAge = 12 * 60 * 60
      /\ c.name = REFRESH_TOKEN => c.maxAge = 7 * 24 * 60 * 60

\* C28: whenever POST /refresh-token answers 200, the authToken cookie has been
\* set on that reply to a non-empty access token; a provider response without
\* an authentication result or access token never gives a 200 with an empty or
\* undefined authToken cookie.
C28_RefreshSetsAccessToken ==
  (hPc = "replied" /\ hReq.route = "/refresh-token" /\ hReply.code = 200)
    => \E c \in hReply.set : c.name = AUTH_TOKEN /\ ~Falsy(c.value)

\* The refreshToken cookie or the email cookie of the request is missing.
MissingRefreshCookies(req) == Falsy(req.refreshToken) \/ Falsy(req.emailCookie)

\* C29: POST /refresh-token with the refreshToken cookie or the email cookie
\* missing answers 401 INVALID_REFRESH_REQUEST without any call to the identity
\* provider and without setting a cookie.
C29_MissingCookiesRejectedEarly ==
  (hReq.route = "/refresh-token" /\ MissingRefreshCookies(hReq))
    => /\ hPc = "replied"
       /\ hCall = NoCall
       /\ hReply.code = 401
       /\ hReply.errorCode = "INVALID_REFRESH_REQUEST"
       /\ hReply.set = {}

\* a refresh request that has its refreshToken cookie but no email cookie was
\* answered 401
C29_Witness ==
  /\ hPc = "replied"
  /\ hReq.route = "/refresh-token"
  /\ ~Falsy(hReq.refreshToken)
  /\ Falsy(hReq.emailCookie)
  /\ hReply.code = 401

\* The origins the claim allows: the three production origins, and
\* http://localhost:5173 in development only.
ListedOrigin(req) ==
  \/ req.origin \in { "https://ai.jonathanmau.com",
                      "https://www.ai.jonathanmau.com",
                      "https://api.jonathanmau.com" }
  \/ req.origin = "http://localhost:5173" /\ req.nodeEnv = "development"
AnswersGetAuthToken == hPc = "replied" /\ hReq.route = "/get-auth-token"

\* C30 as stated: GET /get-auth-token discloses the authToken cookie only when
\* the request has no Origin header or a listed Origin; any other Origin gets
\* 403 and no token value.
C30_DisclosedOnlyWithoutOrListedOrigin ==
  (AnswersGetAuthToken /\ hReq.origin # Undef /\ ~ListedOrigin(hReq))
    => hReply.code = 403 /\ hReply.authToken = Undef

\* C30 amended: GET /get-auth-token discloses the authToken cookie only when
\* the request has no Origin header, an empty Origin header, or a listed
\* Origin; any other Origin gets 403 and no token value, and the listed and
\* absent ones get the cookie's value.
C30_DisclosedOnlyWithoutEmptyOrListedOrigin ==
  AnswersGetAuthToken =>
    IF hReq.origin \in {Undef, ""} \/ ListedOrigin(hReq)
      THEN hReply.code = 200 /\ hReply.authToken = hReq.authToken
      ELSE hReply.code = 403 /\ hReply.authToken = Undef

\* a production request from http://localhost:5173 carrying a token was
\* answered 403
C30_Witness ==
  /\ AnswersGetAuthToken
  /\ hReq.origin = "http://localhost:5173"
  /\ hReq.nodeEnv = "production"
  /\ hReq.authToken = "at-1"
  /\ hReply.code = 403

\* C26: a request that got its keys from a fresh cache can always take its
\* verification step, and that step completes it, whatever the other requests
\* do, also while another request is blocked in a key fetch that never
\* returns: no request waits for another one.
C26_VerificationNeverWaits ==
  \A r \in Req :
    (pc[r] = "gotKeys" /\ gets[r] = 0) =>
      ENABLED (Verify(r) /\ pc'[r] = "done")

\* a request served from the cache was verified while another request was
\* still waiting for its fetch
C26_Witness ==
  \E r, q \in Req :
    /\ r # q
    /\ pc[r] = "done" /\ gets[r] = 0 /\ user[r] # NoUser
    /\ pc[q] = "fetching"

\* C27 (as claimed): jwksLastFetch never decreases, and the cached key set
\* changes only together with the timestamp of the fetch that produced it.
C27_TimestampMonotone ==
  [][/\ jwksLastFetch' >= jwksLastFetch
     /\ jwksCache' # jwksCache =>
          \E r \in Req : Lands(r) /\ jwksLastFetch' = nowAt[r]]_vars

\* C25 (as claimed): when the handler of GET /me produces its response to a
\* request that carries an authToken cookie, the authentication decorator has
\* ended for a request, and a 200 is produced only after it ended with a
\* verified identity.
C25_MeVerifiedByMiddleware ==
  [][(/\ hPc # "replied" /\ hPc' = "replied"
      /\ hReq'.route = "/me" /\ ~Falsy(hReq'.authToken)) =>
       \E r \in Req : /\ pc[r] = "done"
                      /\ hReply'.code = 200 => user[r] # NoUser]_vars

====
